---- MODULE Spec2Model ----
(***************************************************************************)
(* Model of semgrep's autofix patch engine (semgrep/autofix.py) and of the  *)
(* baseline snapshot manager (semgrep/git.py).                              *)
(*                                                                          *)
(* Text is a sequence of one-character strings; a file is the text read by  *)
(* Path.read_text / written by Path.write_text.                             *)
(***************************************************************************)
EXTENDS Integers, Sequences, FiniteSets, TLC

VARIABLES
    \* ---- autofix.py: apply_fixes ----
    files,                  \* path -> text on disk
    files0,                 \* path -> text on disk when apply_fixes was called
    dryrun,                 \* the dryrun argument
    modified_files,         \* apply_fixes: modified_files
    modified_files_offsets, \* apply_fixes: modified_files_offsets
    applied,                \* the matches iterated to their end so far, with their outcome
    written,                \* the paths _write_contents was called on, in order
    fx_pc,                  \* "loop" | "done" | "raised"
    fx_err,                 \* the exception apply_fixes raised
    fault,                  \* what the file system or the transform did wrong
    num_modified,           \* apply_fixes: num_modified (-1 until computed)
    queue,                  \* the matches still to iterate, when the caller's list is given
    \* ---- git.py: the repository ----
    merge_base_tree,        \* tree of the merge base of base_commit and HEAD
    base_tree,              \* tree of base_commit
    head_tree,              \* tree of HEAD
    index,                  \* the index
    worktree,               \* the working tree
    link_dirs,              \* the paths that are symlinks to a directory
    index0,                 \* the index when the handler was constructed
    worktree0,              \* the working tree when the handler was constructed
    \* ---- git.py: BaselineHandler ----
    h_pc,                   \* "new" | "constructed" | "raised" | "spin"
    h_err,                  \* the exception __init__ raised
    self_status,            \* self.status
    dirty,                  \* self._dirty_paths_by_status
    c_pc,                   \* where baseline_context is
    current_tree,           \* baseline_context: current_tree (NoTree before write-tree)
    next_added,             \* baseline_context: position in status.added
    pending,                \* the exception the try block is unwinding with
    c_err,                  \* the exception baseline_context raised
    restore,                \* the restoring checkout: attempted, its return code; git rm
    parse                   \* _get_git_status: the state of its parsing loop

fixVars == <<files, files0, dryrun, modified_files, modified_files_offsets,
             applied, written, fx_pc, fx_err, fault, num_modified, queue>>

gitVars == <<merge_base_tree, base_tree, head_tree, index, worktree, link_dirs,
             index0, worktree0,
             h_pc, h_err, self_status, dirty, c_pc, current_tree, next_added,
             pending, c_err, restore, parse>>

vars == <<fixVars, gitVars>>

-----------------------------------------------------------------------------
(* Bounds of the model *)

MaxLen == 3      \* longest file text drawn, in characters
MaxFixes == 3    \* most matches handed to one apply_fixes call

-----------------------------------------------------------------------------
(* Python str / list primitives *)

NL == "\n"
CR == "\r"
\* form feed: a line boundary for str.splitlines(), not for split("\n")
FF == "\f"
SPLIT_CHAR == NL

\* the line boundaries str.splitlines() recognises, within the alphabet
LineBoundaries == {NL, CR, FF}

\* characters of the file texts drawn; "a" stands for any source character.
\* read_text() opens the file with universal newlines: what it returns holds
\* no "\r", whatever the bytes on disk.
FileAlphabet == {"a", NL, FF}

Min(a, b) == IF a < b THEN a ELSE b
Max(a, b) == IF a > b THEN a ELSE b

\* index of the first element of s that is in set cs, 0 if none
FirstIn(s, cs) ==
    IF \E i \in 1..Len(s) : s[i] \in cs
    THEN CHOOSE i \in 1..Len(s) : s[i] \in cs /\ \A j \in 1..(i-1) : s[j] \notin cs
    ELSE 0

\* str.split("\n"): always at least one piece
RECURSIVE str_split(_)
str_split(s) ==
    LET i == FirstIn(s, {SPLIT_CHAR})
    IN  IF i = 0 THEN <<s>>
        ELSE <<SubSeq(s, 1, i-1)>> \o str_split(SubSeq(s, i+1, Len(s)))

\* str.splitlines(): splits on \n, \r and \r\n, no piece for a trailing
\* boundary, no piece at all for the empty string
RECURSIVE str_splitlines(_)
str_splitlines(s) ==
    IF s = <<>> THEN <<>>
    ELSE LET i == FirstIn(s, LineBoundaries)
         IN  IF i = 0 THEN <<s>>
             ELSE LET skip == IF s[i] = CR /\ i < Len(s) /\ s[i+1] = NL
                              THEN 2 ELSE 1
                  IN  <<SubSeq(s, 1, i-1)>>
                          \o str_splitlines(SubSeq(s, i+skip, Len(s)))

\* SPLIT_CHAR.join(lines)
RECURSIVE str_join(_)
str_join(lines) ==
    IF lines = <<>> THEN <<>>
    ELSE IF Len(lines) = 1 THEN lines[1]
    ELSE lines[1] \o <<SPLIT_CHAR>> \o str_join(Tail(lines))

\* Python slice bounds: negative counts from the end, both clamp to [0, n]
PyNorm(i, n) == IF i < 0 THEN Max(n + i, 0) ELSE Min(i, n)

\* s[lo:hi] with 0-based lo, hi
PySlice(s, lo, hi) == SubSeq(s, PyNorm(lo, Len(s)) + 1, PyNorm(hi, Len(s)))
\* s[:hi]
PyPrefix(s, hi) == PySlice(s, 0, hi)
\* s[lo:]
PySuffix(s, lo) == SubSeq(s, PyNorm(lo, Len(s)) + 1, Len(s))
\* s[i] is defined (no IndexError)
PyIndexOk(s, i) == -Len(s) <= i /\ i < Len(s)
\* s[i], 0-based, negative from the end
PyIndex(s, i) == IF i < 0 THEN s[Len(s) + i + 1] ELSE s[i + 1]

-----------------------------------------------------------------------------
(* re.sub for the patterns drawn: a pattern is a sequence of literal         *)
(* characters and "." (any character but a newline); the replacement is      *)
(* literal (no group references).                                            *)

PatMatches(pat, text) ==
    /\ Len(pat) <= Len(text)
    /\ \A i \in 1..Len(pat) : pat[i] = text[i] \/ (pat[i] = "." /\ text[i] # NL)

\* left < 0: no limit on the number of replacements
RECURSIVE re_sub_from(_, _, _, _)
re_sub_from(pat, repl, text, left) ==
    IF left = 0 \/ text = <<>> THEN text
    ELSE IF PatMatches(pat, text)
         THEN repl \o re_sub_from(pat, repl, SubSeq(text, Len(pat)+1, Len(text)),
                                  IF left > 0 THEN left - 1 ELSE left)
         ELSE <<text[1]>> \o re_sub_from(pat, repl, Tail(text), left)

\* re.sub(pattern, repl, string, count): count = 0 replaces every occurrence
re_sub(pat, repl, text, count) ==
    re_sub_from(pat, repl, text, IF count = 0 THEN -1 ELSE count)

-----------------------------------------------------------------------------
(* autofix.py *)

Paths == {"f1", "f2"}

\* class FileOffsets; NoOffsets is a path missing from modified_files_offsets
FileOffsets(line_offset, col_offset, active_line) ==
    [present |-> TRUE, line_offset |-> line_offset,
     col_offset |-> col_offset, active_line |-> active_line]
NoOffsets ==
    [present |-> FALSE, line_offset |-> 0, col_offset |-> 0, active_line |-> 0]

\* _get_lines, given what path.read_text() returned
_get_lines(contents) == str_split(contents)

\* _get_match_context taking the end column as the column of the last
\* character of the match
_get_match_context_end_inclusive(rule_match, offsets) ==
    [start_line |-> (rule_match.start.line - 1) + offsets.line_offset,
     start_col  |-> (rule_match.start.col - 1) + offsets.col_offset,
     end_line   |-> (rule_match.end.line - 1) + offsets.line_offset,
     end_col    |-> rule_match.end.col + offsets.col_offset]

\* lines 47-63
_get_match_context(rule_match, offsets) ==
    [start_line |-> (rule_match.start.line - 1) + offsets.line_offset,
     start_col  |-> (rule_match.start.col - 1) + offsets.col_offset,
     end_line   |-> (rule_match.end.line - 1) + offsets.line_offset,
     end_col    |-> (rule_match.end.col - 1) + offsets.col_offset]

NoFix == [fixed_contents |-> <<>>, fixed_lines |-> <<>>]

\* _basic_fix, given what rule_match.path.read_text() returned.
\* raised: lines[start_line] or lines[end_line] is an IndexError.
_basic_fix(contents, rule_match, file_offsets, fix) ==
    LET lines == _get_lines(contents)
        c == _get_match_context(rule_match, file_offsets)
    IN  IF ~(PyIndexOk(lines, c.start_line) /\ PyIndexOk(lines, c.end_line))
        THEN [raised |-> TRUE, fix |-> NoFix, offsets |-> file_offsets]
        ELSE
        LET before_lines == PyPrefix(lines, c.start_line)
            before_on_start_line == PyPrefix(PyIndex(lines, c.start_line), c.start_col)
            after_on_end_line == PySuffix(PyIndex(lines, c.end_line), c.end_col)
            modified_lines ==
                str_splitlines(before_on_start_line \o fix \o after_on_end_line)
            after_lines == PySuffix(lines, c.end_line + 1)
            contents_after_fix == before_lines \o modified_lines \o after_lines
            new_offsets ==
                [file_offsets EXCEPT
                    !.line_offset = Len(contents_after_fix) - Len(lines),
                    !.col_offset = IF c.start_line = c.end_line
                                   THEN Len(fix) - (c.end_col - c.start_col)
                                   ELSE @]
        IN  [raised |-> FALSE,
             fix |-> [fixed_contents |-> str_join(contents_after_fix),
                      fixed_lines |-> modified_lines],
             offsets |-> new_offsets]

\* _regex_replace, given what rule_match.path.read_text() returned
_regex_replace(contents, rule_match, file_offsets, from_str, to_str, count) ==
    LET lines == _get_lines(contents)
        c == _get_match_context(rule_match, file_offsets)
        before_lines == PyPrefix(lines, c.start_line)
        after_lines == PySuffix(lines, c.end_line + 1)
        match_context == PySlice(lines, c.start_line, c.end_line + 1)
        fix == re_sub(from_str, to_str, str_join(match_context), count)
        modified_context == str_splitlines(fix)
        modified_contents == before_lines \o modified_context \o after_lines
    IN  [raised |-> FALSE,
         fix |-> [fixed_contents |-> str_join(modified_contents),
                  fixed_lines |-> modified_context],
         offsets |-> [file_offsets EXCEPT
                        !.line_offset = Len(modified_context) - Len(match_context)]]

-----------------------------------------------------------------------------
(* The match records handed to apply_fixes *)

\* rule_match.fix: None (present = FALSE) or a string
NoneFix == [present |-> FALSE, text |-> <<>>]
StrFix(t) == [present |-> TRUE, text |-> t]

\* a value of fix_regex["count"]: absent, an int, or a string int() rejects
CountAbsent == [kind |-> "absent", n |-> 0]
CountInt(n) == [kind |-> "int", n |-> n]
CountBad == [kind |-> "bad", n |-> 0]

\* rule_match.fix_regex: None (present = FALSE) or a dict
NoneFixRegex ==
    [present |-> FALSE, has_regex |-> FALSE, regex |-> <<>>,
     has_replacement |-> FALSE, replacement |-> <<>>, count |-> CountAbsent]
FixRegex(regex, replacement, count) ==
    [present |-> TRUE, has_regex |-> TRUE, regex |-> regex,
     has_replacement |-> TRUE, replacement |-> replacement, count |-> count]
\* the dict with no key
EmptyFixRegex == [NoneFixRegex EXCEPT !.present = TRUE]
\* line 153, "elif fix_regex": None and the empty dict are falsy
DictTruthy(d) ==
    d.present /\ (d.has_regex \/ d.has_replacement \/ d.count.kind # "absent")

\* the replacement texts drawn for literal fixes
LiteralFixes == {<<>>, <<"x">>, <<"x", NL>>}

\* the fix_regex dicts drawn
RegexFixes ==
    {FixRegex(<<"a">>, <<"x">>, CountInt(1)),
     FixRegex(<<"a">>, <<"x", NL>>, CountAbsent),
     FixRegex(<<"a">>, <<>>, CountInt(0)),
     [FixRegex(<<>>, <<"x">>, CountAbsent) EXCEPT !.has_regex = FALSE],
     [FixRegex(<<"a">>, <<>>, CountAbsent) EXCEPT !.has_replacement = FALSE],
     EmptyFixRegex}

\* the (fix, fix_regex) pairs a rule gives its matches
Directives ==
    {[fix |-> StrFix(t), fix_regex |-> NoneFixRegex] : t \in LiteralFixes}
    \cup {[fix |-> NoneFix, fix_regex |-> r] : r \in RegexFixes}
    \cup {[fix |-> NoneFix, fix_regex |-> NoneFixRegex]}

\* all texts over FileAlphabet of length at most n
RECURSIVE TextsUpTo(_)
TextsUpTo(n) ==
    IF n = 0 THEN {<<>>}
    ELSE LET shorter == TextsUpTo(n - 1)
         IN  shorter \cup {Append(t, ch) : t \in shorter, ch \in FileAlphabet}

Contents == TextsUpTo(MaxLen)

\* the text of the second file
OtherText == <<"a">>

Pos(line, col) == [line |-> line, col |-> col]
\* position p is at or before position q
PosLeq(p, q) == p.line < q.line \/ (p.line = q.line /\ p.col <= q.col)

\* the spans a match of text can have: 1-indexed, end column exclusive, first
\* and last matched character are source characters
Spans(text) ==
    LET lines == str_split(text)
        starts == {Pos(l, c) : l \in 1..Len(lines), c \in 1..MaxLen}
        ends == {Pos(l, c) : l \in 1..Len(lines), c \in 2..(MaxLen + 1)}
    IN  {sp \in [start : starts, end : ends] :
            /\ sp.start.col <= Len(lines[sp.start.line])
            /\ lines[sp.start.line][sp.start.col] \notin LineBoundaries
            /\ sp.end.col - 1 <= Len(lines[sp.end.line])
            /\ lines[sp.end.line][sp.end.col - 1] \notin LineBoundaries
            /\ PosLeq(sp.start, sp.end) /\ sp.start # sp.end}

\* end of the last match iterated on path, Pos(1, 1) if none
RECURSIVE LastEnd(_, _)
LastEnd(hist, path) ==
    IF hist = <<>> THEN Pos(1, 1)
    ELSE IF hist[Len(hist)].m.path = path THEN hist[Len(hist)].m.end
    ELSE LastEnd(SubSeq(hist, 1, Len(hist) - 1), path)

\* the match records that can come next: matches of the file as it was when
\* scanned, per file top-to-bottom and not overlapping
NextMatches ==
    UNION {{[path |-> p, start |-> sp.start, end |-> sp.end,
             fix |-> d.fix, fix_regex |-> d.fix_regex] :
                sp \in {x \in Spans(files0[p]) :
                            PosLeq(LastEnd(applied, p), x.start)},
                d \in Directives} : p \in Paths}

-----------------------------------------------------------------------------
(* apply_fixes *)

\* an exception: its class, what it reports, the file its message names ("" if
\* none) and the file of the match whose iteration raised it
NoError == [kind |-> "none", what |-> "", path |-> "", on |-> ""]
\* SemgrepError(f"unable to modify file {filepath}: {e}") and its fix-regex twin
UnableToModify(what, filepath) ==
    [kind |-> "SemgrepError", what |-> what, path |-> filepath, on |-> filepath]
\* SemgrepError about the fix-regex directive itself: names no file
BadDirective(what, filepath) ==
    [kind |-> "SemgrepError", what |-> what, path |-> "", on |-> filepath]

\* Python truth of a str-or-None
Truthy(present, text) == present /\ text # <<>>

\* retrieve_offsets without line 147: the column offset of the previous line
\* is carried to the new line
retrieve_offsets_keeps_col_offset(rule_match) ==
    LET file_offsets ==
            IF modified_files_offsets[rule_match.path].present
            THEN modified_files_offsets[rule_match.path]
            ELSE FileOffsets(0, 0, rule_match.start.line)
    IN  IF file_offsets.active_line # rule_match.start.line
        THEN [file_offsets EXCEPT !.active_line = rule_match.start.line]
        ELSE file_offsets

\* lines 142-147: the file's offsets, col_offset reset on a new line
retrieve_offsets(rule_match) ==
    LET file_offsets ==
            IF modified_files_offsets[rule_match.path].present
            THEN modified_files_offsets[rule_match.path]
            ELSE FileOffsets(0, 0, rule_match.start.line)
    IN  IF file_offsets.active_line # rule_match.start.line
        THEN [file_offsets EXCEPT !.active_line = rule_match.start.line,
                                  !.col_offset = 0]
        ELSE file_offsets

Raise(err, file_offsets) ==
    [outcome |-> "raised", err |-> err, fix |-> NoFix, offsets |-> file_offsets]

\* compute_fix with the except clauses of lines 151 and 171 passing over the
\* exception: the match is skipped
compute_fix_swallows(rule_match, file_offsets, read_ok) ==
    LET fix == rule_match.fix
        fix_regex == rule_match.fix_regex
        filepath == rule_match.path
        skip == [outcome |-> "continue", err |-> NoError, fix |-> NoFix,
                 offsets |-> file_offsets]
    IN  IF Truthy(fix.present, fix.text)
        THEN IF ~read_ok
             THEN skip
             ELSE LET r == _basic_fix(files[filepath], rule_match,
                                      file_offsets, fix.text)
                  IN  IF r.raised
                      THEN skip
                      ELSE [outcome |-> "fixed", err |-> NoError,
                            fix |-> r.fix, offsets |-> r.offsets]
        ELSE IF DictTruthy(fix_regex)
        THEN IF \/ ~Truthy(fix_regex.has_regex, fix_regex.regex)
                \/ ~Truthy(fix_regex.has_replacement, fix_regex.replacement)
             THEN Raise(BadDirective("regex and replacement required", filepath),
                        file_offsets)
             ELSE IF fix_regex.count.kind = "bad"
             THEN Raise(BadDirective("count must be an integer", filepath),
                        file_offsets)
             ELSE IF ~read_ok
             THEN skip
             ELSE LET r == _regex_replace(files[filepath], rule_match,
                                          file_offsets, fix_regex.regex,
                                          fix_regex.replacement,
                                          fix_regex.count.n)
                  IN  [outcome |-> "fixed", err |-> NoError,
                       fix |-> r.fix, offsets |-> r.offsets]
        ELSE skip

\* lines 148-176: the fix object and new offsets of one match, or the error
\* raised, or "continue". read_ok: path.read_text() succeeds.
compute_fix(rule_match, file_offsets, read_ok) ==
    LET fix == rule_match.fix
        fix_regex == rule_match.fix_regex
        filepath == rule_match.path
    IN  IF Truthy(fix.present, fix.text)
        THEN IF ~read_ok
             THEN Raise(UnableToModify("modify", filepath), file_offsets)
             ELSE LET r == _basic_fix(files[filepath], rule_match,
                                      file_offsets, fix.text)
                  IN  IF r.raised
                      THEN Raise(UnableToModify("modify", filepath), file_offsets)
                      ELSE [outcome |-> "fixed", err |-> NoError,
                            fix |-> r.fix, offsets |-> r.offsets]
        ELSE IF DictTruthy(fix_regex)
        THEN IF \/ ~Truthy(fix_regex.has_regex, fix_regex.regex)
                \/ ~Truthy(fix_regex.has_replacement, fix_regex.replacement)
             THEN Raise(BadDirective("regex and replacement required", filepath),
                        file_offsets)
             ELSE IF fix_regex.count.kind = "bad"
             THEN Raise(BadDirective("count must be an integer", filepath),
                        file_offsets)
             ELSE IF ~read_ok
             THEN Raise(UnableToModify("regex modify", filepath), file_offsets)
             ELSE LET r == _regex_replace(files[filepath], rule_match,
                                          file_offsets, fix_regex.regex,
                                          fix_regex.replacement,
                                          fix_regex.count.n)
                  IN  [outcome |-> "fixed", err |-> NoError,
                       fix |-> r.fix, offsets |-> r.offsets]
        ELSE [outcome |-> "continue", err |-> NoError, fix |-> NoFix,
              offsets |-> file_offsets]

\* the FileOffsets object of a path already in modified_files_offsets is
\* updated in place, whatever the iteration then does
InPlace(filepath, offsets) ==
    IF modified_files_offsets[filepath].present
    THEN [modified_files_offsets EXCEPT ![filepath] = offsets]
    ELSE modified_files_offsets

Entry(rule_match, outcome, attached, fixed_lines) ==
    [m |-> rule_match, outcome |-> outcome, attached |-> attached,
     fixed_lines |-> fixed_lines]

\* what the file system can do during one iteration: read_text can fail when
\* the match carries a usable fix, write_text when the fix is to be written
IOOutcomes(rule_match) ==
    LET fix == rule_match.fix
        fix_regex == rule_match.fix_regex
        reads == \/ Truthy(fix.present, fix.text)
                 \/ /\ DictTruthy(fix_regex)
                    /\ Truthy(fix_regex.has_regex, fix_regex.regex)
                    /\ Truthy(fix_regex.has_replacement, fix_regex.replacement)
                    /\ fix_regex.count.kind # "bad"
    IN  {"ok"} \cup (IF reads THEN {"read_error"} ELSE {})
               \cup (IF reads /\ ~dryrun THEN {"write_error"} ELSE {})

\* write_back without the test of line 178: the file is written in a dry run too
write_back_ignores_dryrun(filepath, fixobj) ==
    [files EXCEPT ![filepath] = fixobj.fixed_contents]

\* lines 178-179: the files after an iteration that produced fixobj
write_back(filepath, fixobj) ==
    IF ~dryrun THEN [files EXCEPT ![filepath] = fixobj.fixed_contents]
    ELSE files

\* line 181: modified_files_offsets after an iteration that produced
\* new_file_offset
store_offsets(filepath, new_file_offset) ==
    IF ~dryrun
    THEN [modified_files_offsets EXCEPT ![filepath] = new_file_offset]
    ELSE InPlace(filepath, new_file_offset)

\* what went wrong with the file during an iteration, whatever apply_fixes
\* then makes of it
NoFault == [kind |-> "none", path |-> ""]
FaultOf(rule_match, file_offsets, io) ==
    LET fix == rule_match.fix
        fix_regex == rule_match.fix_regex
    IN  IF /\ ~Truthy(fix.present, fix.text)
           /\ fix_regex.present
           /\ ~(fix_regex.has_regex /\ fix_regex.has_replacement)
        THEN [kind |-> "bad_directive", path |-> rule_match.path]
        ELSE IF io = "read_error"
        THEN [kind |-> "read_error", path |-> rule_match.path]
        ELSE IF /\ Truthy(fix.present, fix.text)
                /\ _basic_fix(files[rule_match.path], rule_match,
                              file_offsets, fix.text).raised
        THEN [kind |-> "transform_error", path |-> rule_match.path]
        ELSE IF io = "write_error"
        THEN [kind |-> "write_error", path |-> rule_match.path]
        ELSE NoFault

\* lines 137-185: the body of the loop, for one match; io: what the file
\* system does during it
ApplyMatch(rule_match, io) ==
        LET filepath == rule_match.path
            file_offsets == retrieve_offsets(rule_match)
            r == compute_fix(rule_match, file_offsets, io # "read_error")
        IN  /\ fault' = FaultOf(rule_match, file_offsets, io)
            /\ CASE r.outcome = "raised" ->
                    /\ fx_pc' = "raised"
                    /\ fx_err' = r.err
                    /\ modified_files_offsets' = InPlace(filepath, r.offsets)
                    /\ UNCHANGED <<files, modified_files, written, applied>>
              [] r.outcome = "continue" ->
                    /\ applied' = Append(applied,
                                     Entry(rule_match, "continue", FALSE, <<>>))
                    /\ modified_files_offsets' = InPlace(filepath, r.offsets)
                    /\ UNCHANGED <<files, modified_files, written, fx_pc, fx_err>>
              [] r.outcome = "fixed" /\ io = "write_error" ->
                    \* path.write_text raises: apply_fixes does not catch it
                    /\ fx_pc' = "raised"
                    /\ fx_err' = [kind |-> "OSError", what |-> "write",
                                  path |-> filepath, on |-> filepath]
                    /\ modified_files_offsets' = InPlace(filepath, r.offsets)
                    /\ UNCHANGED <<files, modified_files, written, applied>>
              [] r.outcome = "fixed" /\ io # "write_error" ->
                    /\ files' = write_back(filepath, r.fix)
                    /\ written' = IF ~dryrun THEN Append(written, filepath)
                                  ELSE written
                    /\ modified_files' = IF ~dryrun
                                         THEN modified_files \cup {filepath}
                                         ELSE modified_files
                    /\ modified_files_offsets' = store_offsets(filepath, r.offsets)
                    /\ applied' = Append(applied,
                                     Entry(rule_match, "fixed", dryrun,
                                           IF dryrun THEN r.fix.fixed_lines
                                           ELSE <<>>))
                    /\ UNCHANGED <<fx_pc, fx_err>>

\* lines 136-137: the loops hand the next match to the body
ApplyFix ==
    /\ fx_pc = "loop"
    /\ Len(applied) < MaxFixes
    /\ \E rule_match \in NextMatches :
        \E io \in IOOutcomes(rule_match) : ApplyMatch(rule_match, io)
    /\ UNCHANGED <<files0, dryrun, num_modified, queue>>
    /\ UNCHANGED gitVars

\* FinishFixes counting the matches iterated instead of the files modified
FinishFixes_counts_matches ==
    /\ fx_pc = "loop"
    /\ fx_pc' = "done"
    /\ num_modified' = Len(applied)
    /\ UNCHANGED <<files, files0, dryrun, modified_files, modified_files_offsets,
                   applied, written, fx_err, fault, queue>>
    /\ UNCHANGED gitVars

\* lines 187-193: the loops are over, the count of modified files is reported
FinishFixes ==
    /\ fx_pc = "loop"
    /\ fx_pc' = "done"
    /\ num_modified' = Cardinality(modified_files)
    /\ UNCHANGED <<files, files0, dryrun, modified_files, modified_files_offsets,
                   applied, written, fx_err, fault, queue>>
    /\ UNCHANGED gitVars

-----------------------------------------------------------------------------
(* Properties of apply_fixes *)

LineCount(text) == Len(_get_lines(text))

\* the entries of a file's matches that produced a fix, in order
FixedOn(p) == SelectSeq(applied, LAMBDA e : e.m.path = p /\ e.outcome = "fixed")

IsLiteral(m) == Truthy(m.fix.present, m.fix.text)
IsSingleLine(m) == m.start.line = m.end.line

\* C6: in a non-dry-run pass, the line_offset kept for a file equals the file's
\* current line count minus its line count when the pass began (the matches
\* drawn are in increasing line order).
C6_LineOffsetIsNetDrift ==
    \A p \in Paths :
        (~dryrun /\ modified_files_offsets[p].present) =>
            modified_files_offsets[p].line_offset
                = LineCount(files[p]) - LineCount(files0[p])

\* a fix applied on its own to text, at the match's original position
ZeroOffsets(m) == FileOffsets(0, 0, m.start.line)
FixAlone(text, m) ==
    IF IsLiteral(m)
    THEN _basic_fix(text, m, ZeroOffsets(m), m.fix.text).fix
    ELSE _regex_replace(text, m, ZeroOffsets(m), m.fix_regex.regex,
                        m.fix_regex.replacement, m.fix_regex.count.n).fix

\* the characters of text before position (line, col), 1-indexed
RECURSIVE CharsBefore(_, _, _)
CharsBefore(lines, line, col) ==
    IF line = 1 THEN col - 1
    ELSE Len(lines[1]) + 1 + CharsBefore(Tail(lines), line - 1, col)

\* text with the span of m replaced by the fix text, character for character
Splice(text, m) ==
    LET lines == str_split(text)
        from == CharsBefore(lines, m.start.line, m.start.col)
        to == CharsBefore(lines, m.end.line, m.end.col)
    IN  SubSeq(text, 1, from) \o m.fix.text \o SubSeq(text, to + 1, Len(text))

HasBoundary(text) == \E i \in 1..Len(text) : text[i] \in LineBoundaries

\* the case of C7: the fixes written to p so far are two literal fixes whose
\* spans are single lines, on different lines
TwoLineFixes(p) ==
    LET fs == FixedOn(p)
    IN  /\ ~dryrun
        /\ Len(fs) = 2
        /\ \A i \in 1..2 : IsLiteral(fs[i].m) /\ IsSingleLine(fs[i].m)
        /\ fs[1].m.start.line # fs[2].m.start.line

C8_DryRunPurity ==
    dryrun =>
        /\ files = files0
        /\ written = <<>>
        /\ modified_files = {}
        /\ \A i \in 1..Len(applied) :
              applied[i].outcome = "fixed" =>
                /\ applied[i].attached
                /\ applied[i].fixed_lines
                     = FixAlone(files0[applied[i].m.path], applied[i].m).fixed_lines

\* a dry run in which a second fix follows, in the same file, a fix that would
\* have moved it
C8_Witness ==
    /\ dryrun
    /\ \E p \in Paths :
        /\ Len(FixedOn(p)) >= 2
        /\ LET m == FixedOn(p)[1].m
           IN  \/ LineCount(FixAlone(files0[p], m).fixed_contents)
                     # LineCount(files0[p])
               \/ (IsLiteral(m) /\ IsSingleLine(m)
                   /\ Len(m.fix.text) # m.end.col - m.start.col)

\* C9 (state part): a failure to read or to transform the file of a fix makes
\* apply_fixes raise the fix-application error naming that file.
C9_RaisesNamingFile ==
    fault.kind \in {"read_error", "transform_error"} =>
        /\ fx_pc = "raised"
        /\ fx_err.kind = "SemgrepError"
        /\ fx_err.path = fault.path

\* C9 (step part): the iteration that raises writes nothing, nothing happens
\* after it, and so the files written before it keep their modified text.
C9_NothingAfterRaise ==
    [][(fx_pc' = "raised") =>
          (files' = files /\ written' = written /\ applied' = applied
           /\ modified_files' = modified_files)]_vars

\* C9: fail-fast on fix errors.
C9_FailFast == []C9_RaisesNamingFile /\ C9_NothingAfterRaise

\* a pass that wrote one file and then failed on a fix
C9_Witness ==
    /\ fx_pc = "raised"
    /\ fault.kind \in {"read_error", "transform_error"}
    /\ written # <<>>
    /\ \E p \in Paths : files[p] # files0[p]

\* the last entry of applied after a step
Iterated == applied'[Len(applied')]

\* a non-dry-run step that applies a fix_regex to path p, the first fix of the
\* pass on p (no offset is involved yet)
FirstRegexStep(p) ==
    /\ ~dryrun
    /\ Len(applied') = Len(applied) + 1
    /\ Iterated.m.path = p
    /\ Iterated.outcome = "fixed"
    /\ ~IsLiteral(Iterated.m)
    /\ FixedOn(p) = <<>>

\* text with the lines spanned by m replaced by what replacing the first
\* occurrence (count = 1) or every occurrence (count = 0 or absent) of the
\* pattern in them gives; the lines before and after are kept
RegexExpected(text, m) ==
    LET lines == str_split(text)
        before == SubSeq(lines, 1, m.start.line - 1)
        span == SubSeq(lines, m.start.line, m.end.line)
        after == SubSeq(lines, m.end.line + 1, Len(lines))
        limit == IF m.fix_regex.count.kind = "int" /\ m.fix_regex.count.n = 1
                 THEN 1 ELSE -1
        replaced == re_sub_from(m.fix_regex.regex, m.fix_regex.replacement,
                                str_join(span), limit)
    IN  str_join(before \o <<replaced>> \o after)

\* C11: a fix_regex with count = 1 replaces the first occurrence of the pattern
\* in the lines the match spans, with count = 0 or absent every occurrence, and
\* nothing else in the file changes.
C11_RegexCountBound ==
    [][\A p \in Paths :
          FirstRegexStep(p) => files'[p] = RegexExpected(files[p], Iterated.m)]_vars

\* the match carries neither a literal fix nor a fix_regex
LacksFix(m) == ~m.fix.present /\ ~m.fix_regex.present
\* the matches of path p iterated so far
MatchesOn(p) == SelectSeq(applied, LAMBDA e : e.m.path = p)
\* the distinct paths _write_contents was called on
WrittenPaths == {written[i] : i \in 1..Len(written)}

\* C12: a file whose matches all lack a literal fix and a fix_regex is never
\* written and is not among the modified files, and the count reported at the
\* end is the number of distinct paths written.
C12_UnfixedUntouched ==
    /\ \A p \in Paths :
          (\A i \in 1..Len(MatchesOn(p)) : LacksFix(MatchesOn(p)[i].m)) =>
              /\ p \notin WrittenPaths
              /\ p \notin modified_files
              /\ files[p] = files0[p]
    /\ modified_files = WrittenPaths
    /\ fx_pc = "done" => num_modified = Cardinality(WrittenPaths)

\* a finished pass that iterated a match without fix on one file and wrote
\* the other file twice
C12_Witness ==
    /\ fx_pc = "done"
    /\ \E p \in Paths :
        /\ MatchesOn(p) # <<>>
        /\ \A i \in 1..Len(MatchesOn(p)) : LacksFix(MatchesOn(p)[i].m)
    /\ Len(written) = 2
    /\ num_modified = 1

\* C13: a match whose fix_regex directive lacks 'regex' or lacks
\* 'replacement' makes apply_fixes raise the configuration error.
C13_RaisesConfigurationError ==
    fault.kind = "bad_directive" =>
        /\ fx_pc = "raised"
        /\ fx_err = BadDirective("regex and replacement required", fault.path)

\* the iteration of a match with such a directive writes no file
C13_NoWrite ==
    [][(fault'.kind = "bad_directive" /\ fault' # fault) =>
          (files' = files /\ written' = written)]_vars

-----------------------------------------------------------------------------
(* git.py: values *)

\* the paths of the repository, relative to its root
GPaths == {"p", "q"}
\* path order of git's listings
GPathSeq == <<"p", "q">>

\* a blob: the content of a file; Absent: no file at the path
Absent == "-"
Blobs == {"b1", "b2"}
\* a tree (of a commit, of the index, of the working directory)
Trees == [GPaths -> Blobs \cup {Absent}]
EmptyTree == [x \in GPaths |-> Absent]
InTree(t) == {x \in GPaths : t[x] # Absent}

\* Python values that compare by type as well as by text: pathlib.Path and str
PathOf(name) == [ty |-> "Path", s |-> name]
StrOf(name) == [ty |-> "str", s |-> name]
\* str(path)
str(path) == StrOf(path.s)

\* class StatusCode
StatusCode ==
    [Added |-> "A", Deleted |-> "D", Renamed |-> "R", Modified |-> "M",
     Unmerged |-> "U", Ignored |-> "!", Untracked |-> "?", Unstaged |-> " "]

\* the rename codes git prints: R and a similarity score
RenameCodes == {"R100", "R075"}
\* code[0]; every other code or path drawn is one character long
FirstChar(code) == IF code \in RenameCodes THEN "R" ELSE code
\* code.strip(): only blanks make it empty
Strip(code) == IF code = " " THEN "" ELSE code

\* the NUL-separated output of a git command: fields and NUL characters
Field(v) == [nul |-> FALSE, v |-> v]
Nul == [nul |-> TRUE, v |-> ""]
RECURSIVE NulTerminated(_)
NulTerminated(fields) ==
    IF fields = <<>> THEN <<>>
    ELSE <<Field(fields[1]), Nul>> \o NulTerminated(Tail(fields))

\* s.strip("\0")
RECURSIVE StripNul(_)
StripNul(s) ==
    IF s = <<>> THEN s
    ELSE IF s[1].nul THEN StripNul(Tail(s))
    ELSE IF s[Len(s)].nul THEN StripNul(SubSeq(s, 1, Len(s) - 1))
    ELSE s

\* s.split("\0") of a non-empty s: one piece more than there are NULs
RECURSIVE SplitNul(_)
SplitNul(s) ==
    IF s = <<>> THEN <<"">>
    ELSE IF s[1].nul THEN <<"">> \o SplitNul(Tail(s))
    ELSE IF Len(s) = 1 THEN <<s[1].v>>
    ELSE <<s[1].v>> \o SplitNul(SubSeq(s, 3, Len(s)))

\* zsplit
zsplit(s) ==
    LET t == StripNul(s)
    IN  IF t # <<>> THEN SplitNul(t) ELSE <<>>

-----------------------------------------------------------------------------
(* git, as far as git.py uses it *)

\* the sequences f[x], for the paths x of xs in order, concatenated
RECURSIVE ConcatOver(_, _)
ConcatOver(f, xs) ==
    IF xs = <<>> THEN <<>> ELSE f[xs[1]] \o ConcatOver(f, Tail(xs))

\* exact renames between two trees: a path only in `old` whose blob is the
\* blob of a path only in `new`
RenamedTo(old, new, x) ==
    {y \in GPaths : /\ old[x] # Absent /\ new[x] = Absent
                    /\ old[y] = Absent /\ new[y] = old[x]}
RenamedFrom(old, new, y) == {x \in GPaths : y \in RenamedTo(old, new, x)}

\* git diff --cached --name-status -z --merge-base <base>: the entries between
\* the merge base's tree and the index, as the fields git prints
DiffFields(merge_base, idx) ==
    LET entry == [x \in GPaths |->
            IF RenamedFrom(merge_base, idx, x) # {}
            THEN <<"R100", CHOOSE o \in RenamedFrom(merge_base, idx, x) : TRUE, x>>
            ELSE IF RenamedTo(merge_base, idx, x) # {} THEN <<>>
            ELSE IF merge_base[x] = Absent /\ idx[x] # Absent
            THEN <<StatusCode.Added, x>>
            ELSE IF merge_base[x] # Absent /\ idx[x] = Absent
            THEN <<StatusCode.Deleted, x>>
            ELSE IF merge_base[x] # idx[x] THEN <<StatusCode.Modified, x>>
            ELSE <<>>]
    IN  ConcatOver(entry, GPathSeq)

\* one line of git status --porcelain: XY, a blank, the path
PorcelainLine(x_code, y_code, path) == <<x_code, y_code, " ", path>>

\* git status --porcelain -z: the changes staged (HEAD against the index),
\* unstaged (index against the working tree), then the untracked paths
StatusLines(head, idx, wt) ==
    LET x_code(x) == IF head[x] = idx[x] THEN " "
                     ELSE IF head[x] = Absent THEN "A"
                     ELSE IF idx[x] = Absent THEN "D" ELSE "M"
        y_code(x) == IF idx[x] = Absent \/ wt[x] = idx[x] THEN " "
                     ELSE IF wt[x] = Absent THEN "D" ELSE "M"
        tracked == [x \in GPaths |->
                      IF x_code(x) = " " /\ y_code(x) = " " THEN <<>>
                      ELSE <<PorcelainLine(x_code(x), y_code(x), x)>>]
        untracked == [x \in GPaths |->
                        IF idx[x] = Absent /\ wt[x] # Absent
                        THEN <<PorcelainLine("?", "?", x)>> ELSE <<>>]
    IN  ConcatOver(tracked, GPathSeq) \o ConcatOver(untracked, GPathSeq)

\* git checkout <tree> -- . : every path of the tree is written to the index
\* and to the working tree; other paths are left alone
CheckoutTree(tree, t) == [x \in GPaths |-> IF tree[x] # Absent THEN tree[x] ELSE t[x]]
\* it fails, "pathspec '.' did not match any file(s) known to git", when the
\* tree holds no path
CheckoutMatches(tree) == InTree(tree) # {}

-----------------------------------------------------------------------------
(* BaselineHandler._get_git_status *)

GitStatus(added, modified, removed, unmerged) ==
    [added |-> added, modified |-> modified, removed |-> removed,
     unmerged |-> unmerged]

\* the state of the parsing loop: pc is "loop", "spin" (an iteration that
\* continues without consuming anything: the loop never ends), "raised"
\* (IndexError) or "done"
ParseState(pc, status_output, status) ==
    [pc |-> pc, status_output |-> status_output, status |-> status]

\* loop_iteration without line 165: a rename entry is trimmed like any other
loop_iteration_trims_two(st, links) ==
    LET status_output == st.status_output
        code == status_output[1]
    IN  IF Len(status_output) < 2
        THEN [st EXCEPT !.pc = "raised"]
        ELSE
        LET fname == status_output[2]
            path == PathOf(fname)
            is_rename == FirstChar(code) = StatusCode.Renamed
        IN  IF Strip(code) = "" THEN [st EXCEPT !.pc = "spin"]
            ELSE IF code = StatusCode.Untracked \/ code = StatusCode.Ignored
            THEN [st EXCEPT !.pc = "spin"]
            ELSE IF fname \in links THEN [st EXCEPT !.pc = "spin"]
            ELSE IF is_rename /\ Len(status_output) < 3
            THEN [st EXCEPT !.pc = "raised",
                            !.status.removed = Append(@, path)]
            ELSE
            LET trim_size == 2
                s == st.status
            IN  ParseState("loop",
                    SubSeq(status_output, trim_size + 1, Len(status_output)),
                    GitStatus(
                        IF is_rename THEN Append(s.added, PathOf(status_output[3]))
                        ELSE IF code = StatusCode.Added THEN Append(s.added, path)
                        ELSE s.added,
                        IF code = StatusCode.Modified THEN Append(s.modified, path)
                        ELSE s.modified,
                        IF is_rename \/ code = StatusCode.Deleted
                        THEN Append(s.removed, path) ELSE s.removed,
                        IF code = StatusCode.Unmerged THEN Append(s.unmerged, path)
                        ELSE s.unmerged))

\* lines 140-174: one iteration of the while loop; links: the paths for which
\* path.is_symlink() and path.is_dir()
loop_iteration(st, links) ==
    LET status_output == st.status_output
        code == status_output[1]
    IN  IF Len(status_output) < 2
        THEN [st EXCEPT !.pc = "raised"]
        ELSE
        LET fname == status_output[2]
            path == PathOf(fname)
            is_rename == FirstChar(code) = StatusCode.Renamed
        IN  IF Strip(code) = "" THEN [st EXCEPT !.pc = "spin"]
            ELSE IF code = StatusCode.Untracked \/ code = StatusCode.Ignored
            THEN [st EXCEPT !.pc = "spin"]
            ELSE IF fname \in links THEN [st EXCEPT !.pc = "spin"]
            ELSE IF is_rename /\ Len(status_output) < 3
            THEN [st EXCEPT !.pc = "raised",
                            !.status.removed = Append(@, path)]
            ELSE
            LET trim_size == IF is_rename THEN 3 ELSE 2
                s == st.status
            IN  ParseState("loop",
                    SubSeq(status_output, trim_size + 1, Len(status_output)),
                    GitStatus(
                        IF is_rename THEN Append(s.added, PathOf(status_output[3]))
                        ELSE IF code = StatusCode.Added THEN Append(s.added, path)
                        ELSE s.added,
                        IF code = StatusCode.Modified THEN Append(s.modified, path)
                        ELSE s.modified,
                        IF is_rename \/ code = StatusCode.Deleted
                        THEN Append(s.removed, path) ELSE s.removed,
                        IF code = StatusCode.Unmerged THEN Append(s.unmerged, path)
                        ELSE s.unmerged))

RECURSIVE parse_loop(_, _)
parse_loop(st, links) ==
    IF st.pc # "loop" THEN st
    ELSE IF st.status_output = <<>> THEN [st EXCEPT !.pc = "done"]
    ELSE parse_loop(loop_iteration(st, links), links)

\* _get_git_status, given the output of git diff
_get_git_status(diff_output, links) ==
    parse_loop(ParseState("loop", zsplit(diff_output),
                          GitStatus(<<>>, <<>>, <<>>, <<>>)),
               links)

-----------------------------------------------------------------------------
(* BaselineHandler: the gates *)

\* the status codes a line of git status --porcelain can start with here
DirtyCodes == {"A", "D", "M", " ", "?"}

\* lines 207-215: the dict built from the lines of git status; a code with
\* no path is a key the dict lacks
RECURSIVE group_by_status(_, _)
group_by_status(output, dirty_paths) ==
    IF output = <<>> THEN dirty_paths
    ELSE LET line == output[1]
             status_code == line[1]
             path == PathOf(line[4])
         IN  group_by_status(Tail(output),
                 [dirty_paths EXCEPT ![status_code] = Append(@, path)])

NoDirtyPaths == [cached |-> FALSE, by_status |-> [c \in DirtyCodes |-> <<>>]]

\* _get_dirty_paths_by_status: the cached dict if there is one, else the one
\* built from the output of git status, which is then cached
_get_dirty_paths_by_status(cache, status_output) ==
    IF cache.cached THEN cache
    ELSE [cached |-> TRUE,
          by_status |-> group_by_status(zsplit(status_output),
                                        NoDirtyPaths.by_status)]

Keys(by_status) == {c \in DirtyCodes : by_status[c] # <<>>}
Elems(seq) == {seq[i] : i \in 1..Len(seq)}

\* _abort_on_pending_changes: TRUE when it raises
_abort_on_pending_changes(by_status) ==
    Keys(by_status) \ {StatusCode.Untracked} # {}

\* _abort_on_conflicting_untracked_paths: TRUE when it raises
_abort_on_conflicting_untracked_paths(st, by_status) ==
    LET changed_paths ==
            Elems(st.added \o st.modified \o st.removed \o st.unmerged)
        untracked_paths ==
            {str(path) : path \in Elems(by_status[StatusCode.Untracked])}
        overlapping_paths == untracked_paths \cap changed_paths
    IN  overlapping_paths # {}

-----------------------------------------------------------------------------
(* BaselineHandler.__init__ *)

NoRestore ==
    [attempted |-> FALSE, returncode |-> -1, diagnostic |-> "", rm |-> "none"]
\* current_tree before git write-tree has returned
NoTree == [x \in GPaths |-> "unset"]
\* the parsing loop when _get_git_status is not running
ParseIdle == ParseState("idle", <<>>, GitStatus(<<>>, <<>>, <<>>, <<>>))

\* the handler and its context before anything ran
HandlerIdle ==
    /\ h_pc = "new"
    /\ h_err = ""
    /\ self_status = GitStatus(<<>>, <<>>, <<>>, <<>>)
    /\ dirty = NoDirtyPaths
    /\ c_pc = "idle"
    /\ current_tree = NoTree
    /\ next_added = 1
    /\ pending = ""
    /\ c_err = ""
    /\ restore = NoRestore

\* the git commands __init__ runs, any of which can exit non-zero
InitCommands == {"cat-file", "diff", "status"}

\* lines 62-95. failing: the command that exits non-zero, "none" if none does.
\* The result: how __init__ ends ("constructed", "raised", or "spin" when
\* _get_git_status never returns), the exception, self.status and the cache.
init_result(failing) ==
    LET parsed == _get_git_status(
                      NulTerminated(DiffFields(merge_base_tree, index)), link_dirs)
        cache == _get_dirty_paths_by_status(dirty,
                      NulTerminated(StatusLines(head_tree, index, worktree)))
        end(pc, err, st, d) == [pc |-> pc, err |-> err, status |-> st, dirty |-> d]
    IN  IF failing = "cat-file"
        THEN end("raised", "Cannot find a commit", self_status, dirty)
        ELSE IF failing = "diff"
        THEN end("raised", "Error initializing baseline", self_status, dirty)
        ELSE IF parsed.pc = "spin"
        THEN end("spin", "", self_status, dirty)
        ELSE IF parsed.pc = "raised"
        THEN end("raised", "IndexError", self_status, dirty)
        ELSE IF failing = "status"
        THEN end("raised", "Error initializing baseline", parsed.status, dirty)
        ELSE IF _abort_on_pending_changes(cache.by_status)
        THEN end("raised", "Found pending changes in tracked files",
                 parsed.status, cache)
        ELSE IF _abort_on_conflicting_untracked_paths(parsed.status, cache.by_status)
        THEN end("raised", "Found files that are untracked by git",
                 parsed.status, cache)
        ELSE end("constructed", "", parsed.status, cache)

\* BaselineHandler(base_commit)
Construct ==
    /\ h_pc = "new"
    /\ \E failing \in InitCommands \cup {"none"} :
        LET r == init_result(failing)
        IN  /\ h_pc' = r.pc
            /\ h_err' = r.err
            /\ self_status' = r.status
            /\ dirty' = r.dirty
    /\ UNCHANGED <<merge_base_tree, base_tree, head_tree, index, worktree,
                   link_dirs, index0, worktree0, c_pc, current_tree, next_added,
                   pending, c_err, restore, parse>>
    /\ UNCHANGED fixVars

-----------------------------------------------------------------------------
(* BaselineHandler.baseline_context *)

repoFrame == <<merge_base_tree, base_tree, head_tree, link_dirs, index0, worktree0,
               parse>>
handlerFrame == <<h_pc, h_err, self_status, dirty>>

\* lines 277-292: the gates again, on the cached dirty paths, then
\* git write-tree
Enter ==
    /\ h_pc = "constructed"
    /\ c_pc = "idle"
    /\ LET cache == _get_dirty_paths_by_status(dirty,
                        NulTerminated(StatusLines(head_tree, index, worktree)))
       IN  IF _abort_on_pending_changes(cache.by_status)
           THEN /\ c_pc' = "raised"
                /\ c_err' = "Found pending changes in tracked files"
                /\ UNCHANGED current_tree
           ELSE IF _abort_on_conflicting_untracked_paths(self_status, cache.by_status)
           THEN /\ c_pc' = "raised"
                /\ c_err' = "Found files that are untracked by git"
                /\ UNCHANGED current_tree
           ELSE \E write_tree_ok \in BOOLEAN :
                IF write_tree_ok
                THEN /\ current_tree' = index
                     /\ c_pc' = "unlink"
                     /\ UNCHANGED c_err
                ELSE /\ c_pc' = "raised"
                     /\ c_err' = "CalledProcessError"
                     /\ UNCHANGED current_tree
    /\ UNCHANGED <<index, worktree, next_added, pending, restore>>
    /\ UNCHANGED <<repoFrame, handlerFrame, fixVars>>

\* UnlinkAdded with the loop of lines 294-300 placed before the try statement:
\* an OSError of unlink leaves baseline_context at once
UnlinkAdded_before_try ==
    /\ c_pc = "unlink"
    /\ next_added <= Len(self_status.added)
    /\ LET a == self_status.added[next_added]
       IN  \E unlink_ok \in BOOLEAN :
            IF unlink_ok
            THEN /\ worktree' = [worktree EXCEPT ![a.s] = Absent]
                 /\ next_added' = next_added + 1
                 /\ UNCHANGED <<c_pc, pending, c_err>>
            ELSE /\ c_pc' = "raised"
                 /\ c_err' = "OSError"
                 /\ UNCHANGED <<worktree, next_added, pending>>
    /\ UNCHANGED <<index, current_tree, restore>>
    /\ UNCHANGED <<repoFrame, handlerFrame, fixVars>>

\* lines 294-300: one iteration of the loop over status.added. unlink raises
\* FileNotFoundError, which is passed over, or another OSError, which is not
UnlinkAdded ==
    /\ c_pc = "unlink"
    /\ next_added <= Len(self_status.added)
    /\ LET a == self_status.added[next_added]
       IN  \E unlink_ok \in BOOLEAN :
            IF unlink_ok
            THEN /\ worktree' = [worktree EXCEPT ![a.s] = Absent]
                 /\ next_added' = next_added + 1
                 /\ UNCHANGED <<c_pc, pending>>
            ELSE /\ pending' = "OSError"
                 /\ c_pc' = "finally"
                 /\ UNCHANGED <<worktree, next_added>>
    /\ UNCHANGED <<index, current_tree, c_err, restore>>
    /\ UNCHANGED <<repoFrame, handlerFrame, fixVars>>

\* CheckoutBase placed before the loop of lines 294-300: it does not wait for
\* the added paths to be unlinked
CheckoutBase_before_unlink ==
    /\ c_pc = "unlink"
    /\ \E outcome \in {"ok", "fail", "timeout"} :
        /\ (outcome = "ok") => CheckoutMatches(base_tree)
        /\ IF outcome = "ok"
           THEN /\ index' = CheckoutTree(base_tree, index)
                /\ worktree' = CheckoutTree(base_tree, worktree)
                /\ c_pc' = "yielded"
                /\ UNCHANGED pending
           ELSE /\ pending' = IF outcome = "fail" THEN "CalledProcessError"
                              ELSE "TimeoutExpired"
                /\ c_pc' = "finally"
                /\ UNCHANGED <<index, worktree>>
    /\ UNCHANGED <<current_tree, next_added, c_err, restore>>
    /\ UNCHANGED <<repoFrame, handlerFrame, fixVars>>

\* lines 302-308: git checkout <base_commit> -- . (check=True)
CheckoutBase ==
    /\ c_pc = "unlink"
    /\ next_added > Len(self_status.added)
    /\ \E outcome \in {"ok", "fail", "timeout"} :
        /\ (outcome = "ok") => CheckoutMatches(base_tree)
        /\ IF outcome = "ok"
           THEN /\ index' = CheckoutTree(base_tree, index)
                /\ worktree' = CheckoutTree(base_tree, worktree)
                /\ c_pc' = "yielded"
                /\ UNCHANGED pending
           ELSE /\ pending' = IF outcome = "fail" THEN "CalledProcessError"
                              ELSE "TimeoutExpired"
                /\ c_pc' = "finally"
                /\ UNCHANGED <<index, worktree>>
    /\ UNCHANGED <<current_tree, next_added, c_err, restore>>
    /\ UNCHANGED <<repoFrame, handlerFrame, fixVars>>

\* line 309: the caller's block runs, and ends or raises
CallerBlock ==
    /\ c_pc = "yielded"
    /\ \E raises \in BOOLEAN : pending' = IF raises THEN "CallerError" ELSE ""
    /\ c_pc' = "finally"
    /\ UNCHANGED <<index, worktree, current_tree, next_added, c_err, restore>>
    /\ UNCHANGED <<repoFrame, handlerFrame, fixVars>>

\* what subprocess.run returned for the restoring checkout: stderr is the
\* captured bytes, or None when the call did not ask for them
Completed(returncode, stderr_captured, stderr) ==
    [returncode |-> returncode, stderr_captured |-> stderr_captured,
     stderr |-> stderr]

PathspecMessage == "pathspec '.' did not match any file(s) known to git"

\* lines 324-338: "ok" (go on), or the exception raised
after_restore(x) ==
    IF x.returncode # 0
    THEN IF ~x.stderr_captured
         THEN "AttributeError"       \* None.decode()
         ELSE IF x.stderr = PathspecMessage THEN "ok"
         ELSE "Fatal error restoring Git state"
    ELSE "ok"

\* lines 318-338: git checkout <current_tree> -- . (no check, stderr not
\* captured), then the look at its return code
Restore ==
    /\ c_pc = "finally"
    /\ \E outcome \in {"ok", "fail", "timeout"} :
        /\ (outcome = "ok") => CheckoutMatches(current_tree)
        /\ LET diagnostic == IF outcome = "ok" THEN ""
                             ELSE IF CheckoutMatches(current_tree) THEN "error"
                             ELSE PathspecMessage
               x == Completed(IF outcome = "ok" THEN 0 ELSE 1, FALSE, diagnostic)
               verdict == IF outcome = "timeout" THEN "TimeoutExpired"
                          ELSE after_restore(x)
           IN  /\ restore' = [attempted |-> TRUE,
                              returncode |-> IF outcome = "timeout" THEN -1
                                             ELSE x.returncode,
                              diagnostic |-> IF outcome = "timeout" THEN ""
                                             ELSE diagnostic,
                              rm |-> "none"]
               /\ IF outcome = "ok"
                  THEN /\ index' = CheckoutTree(current_tree, index)
                       /\ worktree' = CheckoutTree(current_tree, worktree)
                  ELSE UNCHANGED <<index, worktree>>
               /\ IF verdict = "ok"
                  THEN /\ c_pc' = "cleanup"
                       /\ UNCHANGED c_err
                  ELSE /\ c_pc' = "raised"
                       /\ c_err' = verdict
    /\ UNCHANGED <<current_tree, next_added, pending>>
    /\ UNCHANGED <<repoFrame, handlerFrame, fixVars>>

\* git rm -f <paths>: the paths leave the index and the working tree; git
\* refuses, and removes nothing, when one of them is not in the index
GitRm(paths, t) == [x \in GPaths |-> IF x \in paths THEN Absent ELSE t[x]]

\* lines 340-352, and the end of the context manager: the exception the try
\* block was unwinding with, if any, goes on to the caller
Cleanup ==
    /\ c_pc = "cleanup"
    /\ LET to_remove == {r.s : r \in {e \in Elems(self_status.removed) :
                                          worktree[e.s] # Absent}}
       IN  IF to_remove # {} /\ to_remove \subseteq InTree(index)
           THEN \E rm_ok \in BOOLEAN :
                    IF rm_ok
                    THEN /\ index' = GitRm(to_remove, index)
                         /\ worktree' = GitRm(to_remove, worktree)
                         /\ restore' = [restore EXCEPT !.rm = "ok"]
                    ELSE /\ restore' = [restore EXCEPT !.rm = "failed"]
                         /\ UNCHANGED <<index, worktree>>
           ELSE /\ restore' = [restore EXCEPT !.rm =
                                   IF to_remove = {} THEN "none" ELSE "failed"]
                /\ UNCHANGED <<index, worktree>>
    /\ IF pending # ""
       THEN c_pc' = "raised" /\ c_err' = pending
       ELSE c_pc' = "returned" /\ UNCHANGED c_err
    /\ UNCHANGED <<current_tree, next_added, pending>>
    /\ UNCHANGED <<repoFrame, handlerFrame, fixVars>>

\* the variables of the baseline handler, at rest on an empty repository
RepoIdle ==
    /\ merge_base_tree = EmptyTree
    /\ base_tree = EmptyTree
    /\ head_tree = EmptyTree
    /\ index = EmptyTree
    /\ worktree = EmptyTree
    /\ link_dirs = {}
    /\ index0 = EmptyTree
    /\ worktree0 = EmptyTree
    /\ parse = ParseIdle
    /\ HandlerIdle

InitFix ==
    /\ \E c \in Contents : files0 = [p \in Paths |-> IF p = "f1" THEN c ELSE OtherText]
    /\ files = files0
    /\ dryrun \in BOOLEAN
    /\ modified_files = {}
    /\ modified_files_offsets = [p \in Paths |-> NoOffsets]
    /\ applied = <<>>
    /\ written = <<>>
    /\ fx_pc = "loop"
    /\ fx_err = NoError
    /\ fault = NoFault
    /\ num_modified = -1
    /\ queue = <<>>
    /\ RepoIdle

NextFix == ApplyFix \/ FinishFixes

SpecFix == InitFix /\ [][NextFix]_vars

-----------------------------------------------------------------------------
(* apply_fixes on a.txt = "foo bar\nbaz foo\n" with two literal fixes *)

ScenarioText ==
    <<"f", "o", "o", " ", "b", "a", "r", NL, "b", "a", "z", " ", "f", "o", "o", NL>>
Qux == <<"q", "u", "x">>

\* a match record on a.txt (path "f1") with a literal fix
ScenarioMatch(line, start_col, end_col, fix) ==
    [path |-> "f1", start |-> Pos(line, start_col), end |-> Pos(line, end_col),
     fix |-> StrFix(fix), fix_regex |-> NoneFixRegex]

\* the rule_matches handed to apply_fixes: one match at the start of line 1,
\* one at the end of line 2, each with its own reading of where "foo" ends
ScenarioQueues ==
    {<<ScenarioMatch(1, 1, e1, t), ScenarioMatch(2, s2, e2, t)>> :
        e1 \in 3..4, s2 \in 5..6, e2 \in 7..8, t \in {Qux, <<"q">>}}

InitScenario ==
    /\ files0 = [p \in Paths |-> IF p = "f1" THEN ScenarioText ELSE OtherText]
    /\ files = files0
    /\ dryrun \in BOOLEAN
    /\ modified_files = {}
    /\ modified_files_offsets = [p \in Paths |-> NoOffsets]
    /\ applied = <<>>
    /\ written = <<>>
    /\ fx_pc = "loop"
    /\ fx_err = NoError
    /\ fault = NoFault
    /\ num_modified = -1
    /\ queue \in ScenarioQueues
    /\ RepoIdle

\* lines 136-137 over a given list: the body runs on the next match of it
ApplyQueued ==
    /\ fx_pc = "loop"
    /\ queue # <<>>
    /\ \E io \in IOOutcomes(Head(queue)) : ApplyMatch(Head(queue), io)
    /\ queue' = Tail(queue)
    /\ UNCHANGED <<files0, dryrun, num_modified>>
    /\ UNCHANGED gitVars

\* lines 187-193, reached when the list is exhausted
FinishQueued == queue = <<>> /\ FinishFixes

NextScenario == ApplyQueued \/ FinishQueued

SpecScenario == InitScenario /\ [][NextScenario]_vars

-----------------------------------------------------------------------------
(* apply_fixes with several literal fixes on one line *)

\* a file of two lines
TwoLines == <<"a", "b", "c", NL, "d", NL>>

\* the one-character matches of TwoLines, in scan order
SameLinePositions == <<Pos(1, 1), Pos(1, 2), Pos(1, 3), Pos(2, 1)>>

\* the rule_matches lists: at each position no match, or a match whose literal
\* fix keeps the length of the line or makes it longer
RECURSIVE SameLineQueues(_)
SameLineQueues(i) ==
    IF i > Len(SameLinePositions) THEN {<<>>}
    ELSE LET rest == SameLineQueues(i + 1)
             at == SameLinePositions[i]
         IN  rest \cup
             {<<ScenarioMatch(at.line, at.col, at.col + 1, t)>> \o q :
                 t \in {<<"x">>, <<"x", "x">>}, q \in rest}

InitSameLine ==
    /\ files0 = [p \in Paths |-> IF p = "f1" THEN TwoLines ELSE OtherText]
    /\ files = files0
    /\ dryrun \in BOOLEAN
    /\ modified_files = {}
    /\ modified_files_offsets = [p \in Paths |-> NoOffsets]
    /\ applied = <<>>
    /\ written = <<>>
    /\ fx_pc = "loop"
    /\ fx_err = NoError
    /\ fault = NoFault
    /\ num_modified = -1
    /\ queue \in SameLineQueues(1)
    /\ RepoIdle

SpecSameLine == InitSameLine /\ [][NextScenario]_vars

-----------------------------------------------------------------------------
(* apply_fixes with fixes whose replacement text is empty *)

\* the fixes a match of this pass carries: a literal fix or a fix_regex, with
\* an empty or a one-character replacement
EmptyFixDirectives ==
    {[fix |-> StrFix(t), fix_regex |-> NoneFixRegex] : t \in {<<>>, <<"x">>}}
    \cup {[fix |-> NoneFix, fix_regex |-> FixRegex(<<"a">>, t, c)] :
              t \in {<<>>, <<"x">>}, c \in {CountAbsent, CountInt(1)}}

\* the rule_matches lists: at each position of TwoLines no match, or a match
\* of one character with one of these fixes
RECURSIVE EmptyFixQueues(_)
EmptyFixQueues(i) ==
    IF i > Len(SameLinePositions) THEN {<<>>}
    ELSE LET rest == EmptyFixQueues(i + 1)
             at == SameLinePositions[i]
         IN  rest \cup
             {<<[path |-> "f1", start |-> at, end |-> Pos(at.line, at.col + 1),
                 fix |-> d.fix, fix_regex |-> d.fix_regex]>> \o q :
                 d \in EmptyFixDirectives, q \in rest}

InitEmptyFix ==
    /\ files0 = [p \in Paths |-> IF p = "f1" THEN TwoLines ELSE OtherText]
    /\ files = files0
    /\ dryrun \in BOOLEAN
    /\ modified_files = {}
    /\ modified_files_offsets = [p \in Paths |-> NoOffsets]
    /\ applied = <<>>
    /\ written = <<>>
    /\ fx_pc = "loop"
    /\ fx_err = NoError
    /\ fault = NoFault
    /\ num_modified = -1
    /\ queue \in EmptyFixQueues(1)
    /\ RepoIdle

SpecEmptyFix == InitEmptyFix /\ [][NextScenario]_vars

\* the pass is over, was no dry run, and iterated exactly these two matches
ScenarioRan(first, second) ==
    /\ fx_pc = "done"
    /\ ~dryrun
    /\ Len(applied) = 2
    /\ applied[1].m = first
    /\ applied[2].m = second

QuxBarBazQux ==
    <<"q", "u", "x", " ", "b", "a", "r", NL, "b", "a", "z", " ", "q", "u", "x", NL>>

\* C14 as stated: the matches at line 1 columns 1 to 3 and line 2 columns 6 to
\* 8, both with fix "qux", leave a.txt containing "qux bar\nbaz qux\n".
C14_ScenarioAsStated ==
    ScenarioRan(ScenarioMatch(1, 1, 3, Qux), ScenarioMatch(2, 6, 8, Qux)) =>
        files["f1"] = QuxBarBazQux

\* C14, amended: the matches at line 1 columns 1 to 4 and line 2 columns 5 to
\* 8 (start column of the first character of "foo", end column one past its
\* last), both with fix "qux", leave a.txt containing "qux bar\nbaz qux\n".
C14_Scenario ==
    ScenarioRan(ScenarioMatch(1, 1, 4, Qux), ScenarioMatch(2, 5, 8, Qux)) =>
        files["f1"] = QuxBarBazQux

C14_Witness ==
    /\ ScenarioRan(ScenarioMatch(1, 1, 4, Qux), ScenarioMatch(2, 5, 8, Qux))
    /\ files["f1"] = QuxBarBazQux
    /\ written = <<"f1", "f1">>

\* the variables of apply_fixes, at rest
FixIdle ==
    /\ files0 = [x \in Paths |-> <<>>]
    /\ files = files0
    /\ dryrun = FALSE
    /\ modified_files = {}
    /\ modified_files_offsets = [x \in Paths |-> NoOffsets]
    /\ applied = <<>>
    /\ written = <<>>
    /\ fx_pc = "idle"
    /\ fx_err = NoError
    /\ fault = NoFault
    /\ num_modified = -1
    /\ queue = <<>>

InitBaseline ==
    /\ merge_base_tree \in Trees
    /\ base_tree \in Trees
    /\ head_tree \in Trees
    /\ index \in Trees
    /\ worktree \in Trees
    /\ link_dirs \in {{}} \cup {{x} : x \in InTree(worktree)}
    /\ index0 = index
    /\ worktree0 = worktree
    /\ parse = ParseIdle
    /\ HandlerIdle
    /\ FixIdle

NextBaseline ==
    \/ Construct
    \/ Enter
    \/ UnlinkAdded
    \/ CheckoutBase
    \/ CallerBlock
    \/ Restore
    \/ Cleanup

SpecBaseline == InitBaseline /\ [][NextBaseline]_vars

\* something other than the handler edits, creates or deletes one file of the
\* working tree, or stages one path, after __init__ has returned and before
\* baseline_context is entered
ExternalChange ==
    /\ h_pc = "constructed"
    /\ c_pc = "idle"
    /\ index = index0
    /\ worktree = worktree0
    /\ \E x \in GPaths : \E b \in Blobs \cup {Absent} :
        \/ /\ worktree[x] # b
           /\ worktree' = [worktree EXCEPT ![x] = b]
           /\ UNCHANGED index
        \/ /\ index[x] # b
           /\ index' = [index EXCEPT ![x] = b]
           /\ UNCHANGED worktree
    /\ UNCHANGED <<c_pc, c_err, current_tree, next_added, pending, restore>>
    /\ UNCHANGED <<repoFrame, handlerFrame, fixVars>>

\* a handler is constructed, the repository may change, baseline_context is
\* entered
NextReentry == Construct \/ ExternalChange \/ Enter

SpecReentry == InitBaseline /\ [][NextReentry]_vars

-----------------------------------------------------------------------------
(* _get_git_status, one iteration of its loop at a time *)

MaxEntries == 2

\* the paths git diff names, and the entries it prints with -z --name-status:
\* a code and a path, or a rename code, the old path and the new path
DiffPaths == {"p", "q", "r"}
PlainCodes == {StatusCode.Added, StatusCode.Deleted, StatusCode.Modified,
               StatusCode.Unmerged, "T"}
DiffEntries ==
    {<<code, x>> : code \in PlainCodes, x \in DiffPaths}
    \cup {<<code, xy[1], xy[2]>> : code \in RenameCodes,
              xy \in {z \in DiffPaths \X DiffPaths : z[1] # z[2]}}
EntryPaths(e) == {e[i] : i \in 2..Len(e)}

\* the outputs of git diff with up to n entries: no path is named twice
RECURSIVE DiffOutputs(_)
DiffOutputs(n) ==
    IF n = 0 THEN {<<>>}
    ELSE LET shorter == DiffOutputs(n - 1)
             named(es) == UNION {EntryPaths(es[i]) : i \in 1..Len(es)}
             longest == {x \in shorter : Len(x) = n - 1}
         IN  shorter \cup
             UNION {{Append(es, e) :
                        e \in {d \in DiffEntries : EntryPaths(d) \cap named(es) = {}}} :
                    es \in longest}

\* the fields of all entries of an output, in order
RECURSIVE Flatten(_)
Flatten(es) == IF es = <<>> THEN <<>> ELSE es[1] \o Flatten(Tail(es))

\* lines 140-174: the body of the while loop runs once
ParseStep ==
    /\ parse.pc = "loop"
    /\ parse.status_output # <<>>
    /\ parse' = loop_iteration(parse, link_dirs)
    /\ UNCHANGED <<merge_base_tree, base_tree, head_tree, index, worktree,
                   link_dirs, index0, worktree0, h_pc, h_err, self_status, dirty,
                   c_pc, current_tree, next_added, pending, c_err, restore>>
    /\ UNCHANGED fixVars

\* lines 140, 175-179: status_output is empty, the loop ends
ParseEnd ==
    /\ parse.pc = "loop"
    /\ parse.status_output = <<>>
    /\ parse' = [parse EXCEPT !.pc = "done"]
    /\ UNCHANGED <<merge_base_tree, base_tree, head_tree, index, worktree,
                   link_dirs, index0, worktree0, h_pc, h_err, self_status, dirty,
                   c_pc, current_tree, next_added, pending, c_err, restore>>
    /\ UNCHANGED fixVars

InitStatus ==
    /\ merge_base_tree = EmptyTree
    /\ base_tree = EmptyTree
    /\ head_tree = EmptyTree
    /\ index = EmptyTree
    /\ worktree = EmptyTree
    /\ index0 = EmptyTree
    /\ worktree0 = EmptyTree
    /\ link_dirs \in SUBSET DiffPaths
    /\ \E es \in DiffOutputs(MaxEntries) :
        parse = ParseState("loop", zsplit(NulTerminated(Flatten(es))),
                           GitStatus(<<>>, <<>>, <<>>, <<>>))
    /\ HandlerIdle
    /\ FixIdle

NextStatus == ParseStep \/ ParseEnd

SpecStatus == InitStatus /\ [][NextStatus]_vars

-----------------------------------------------------------------------------
(* Properties of BaselineHandler *)

\* some tracked file has a staged or an unstaged change
PendingTracked(head, idx, wt) ==
    \E x \in GPaths : head[x] # idx[x] \/ (idx[x] # Absent /\ wt[x] # idx[x])
\* the untracked paths
UntrackedIn(idx, wt) == {x \in GPaths : idx[x] = Absent /\ wt[x] # Absent}
\* the paths of the four lists of a status set
StatusSetPaths(st) ==
    {e.s : e \in Elems(st.added \o st.modified \o st.removed \o st.unmerged)}

\* C1: on a tree with no pending change to a tracked file, once
\* baseline_context has been entered and left with no exception, every file
\* the working tree held before entry is there with the content it had.
C1_ContentRoundTrip ==
    (c_pc = "returned" /\ ~PendingTracked(head_tree, index0, worktree0)) =>
        \A x \in InTree(worktree0) : worktree[x] = worktree0[x]

\* C2: once baseline_context has returned after a restoring checkout that
\* succeeded, the working tree holds no file that was absent before entry.
C2_NoLeftovers ==
    (c_pc = "returned" /\ restore.attempted /\ restore.returncode = 0) =>
        \A x \in GPaths : worktree0[x] = Absent => worktree[x] = Absent

\* C3: once current_tree is recorded, baseline_context is left (normally or
\* with an exception, whatever failed) only after the checkout of
\* current_tree was attempted.
C3_RestorationAttempted ==
    (current_tree # NoTree /\ c_pc \in {"cleanup", "returned", "raised"}) =>
        restore.attempted

\* the ways out of the try block: what it was unwinding with
C3_WaysOut == {"", "CallerError", "OSError", "CalledProcessError", "TimeoutExpired"}

\* baseline_context left with the exception of a failed unlink, after the
\* restoring checkout ran
C3_Witness ==
    /\ c_pc = "raised"
    /\ c_err = "OSError"
    /\ pending \in C3_WaysOut
    /\ restore.attempted

\* C4: the constructor raises whenever an untracked path of the working tree
\* is a path of the added, modified, removed or unmerged list of the status
\* set it computed.
C4_UntrackedCollisionGate ==
    (h_pc = "constructed") =>
        UntrackedIn(index0, worktree0) \cap StatusSetPaths(self_status) = {}

\* C5: the constructor changes neither the index nor the working tree,
\* however it ends, and it raises when a tracked file has a staged or an
\* unstaged change.
C5_CleanTreeGate ==
    (h_pc # "new" /\ c_pc = "idle") =>
        /\ index = index0
        /\ worktree = worktree0
        /\ PendingTracked(head_tree, index0, worktree0) => h_pc = "raised"

\* an iteration of the parsing loop on an entry with a rename code
RenameStep ==
    /\ parse.pc = "loop"
    /\ parse.status_output # <<>>
    /\ FirstChar(parse.status_output[1]) = StatusCode.Renamed
    /\ parse' # parse
\* what C10 says the iteration does
RenameClassified ==
    LET out == parse.status_output
    IN  /\ parse'.pc = "loop"
        /\ parse'.status.removed = Append(parse.status.removed, PathOf(out[2]))
        /\ parse'.status.added = Append(parse.status.added, PathOf(out[3]))
        /\ parse'.status.modified = parse.status.modified
        /\ parse'.status.unmerged = parse.status.unmerged
        /\ parse'.status_output = SubSeq(out, 4, Len(out))

RestoreFailed == restore.attempted /\ restore.returncode > 0

\* C15: when the restoring checkout exits non-zero and its diagnostic output
\* holds the pathspec message, baseline_context raises no error on that
\* account (the only exception it may end with is the one the try block was
\* already unwinding with) and goes on to the cleanup of the removed paths.
C15_BenignRestoreFailure ==
    (RestoreFailed /\ restore.diagnostic = PathspecMessage) =>
        \/ c_pc \in {"cleanup", "returned"}
        \/ c_pc = "raised" /\ pending # "" /\ c_err = pending

\* C16: when the restoring checkout exits non-zero for any other reason,
\* baseline_context raises the fatal error that tells the user to restore the
\* repository state manually.
C16_EscalatedRestoreFailure ==
    (RestoreFailed /\ restore.diagnostic # PathspecMessage) =>
        c_pc = "raised" /\ c_err = "Fatal error restoring Git state"

\* an iteration of the parsing loop on an entry of a tracked change whose path
\* is a symlink to a directory
LinkStep ==
    /\ parse.pc = "loop"
    /\ Len(parse.status_output) >= 2
    /\ Strip(parse.status_output[1]) # ""
    /\ parse.status_output[1] \notin {StatusCode.Untracked, StatusCode.Ignored}
    /\ parse.status_output[2] \in link_dirs
    /\ parse' # parse

\* C17: on an entry whose path is a symlink to a directory the parsing loop
\* goes on (so that _get_git_status terminates), puts the path in none of the
\* four lists, and is left with the entries after it to classify.
C17_SymlinkedDirectorySkipped ==
    [][LinkStep =>
          /\ parse'.pc = "loop"
          /\ parse'.status = parse.status
          /\ Len(parse'.status_output) < Len(parse.status_output)]_vars

\* baseline_context is entered
EnterStep == c_pc = "idle" /\ c_pc' # "idle"

\* a tracked file has a pending change it had not when the handler was
\* constructed
NewPending ==
    /\ PendingTracked(head_tree, index, worktree)
    /\ ~PendingTracked(head_tree, index0, worktree0)
\* an untracked path that was not there when the handler was constructed is a
\* path of the status set
NewCollision ==
    (UntrackedIn(index, worktree) \ UntrackedIn(index0, worktree0))
        \cap StatusSetPaths(self_status) # {}

\* C18: when baseline_context is entered after a tracked file got a pending
\* change, or after an untracked path appeared that is a path of the status
\* set, it raises, with the index and the working tree as they were.
C18_RevalidationAtEntry ==
    [][(EnterStep /\ (NewPending \/ NewCollision))
          => (c_pc' = "raised" /\ index' = index /\ worktree' = worktree)]_vars

\* the paths of a list of the status set
ListPaths(list) == {e.s : e \in Elems(list)}

\* the reference checkout runs (whether it succeeds or not)
BaseCheckoutStep ==
    /\ c_pc = "unlink"
    /\ c_pc' = "yielded" \/ pending' \in {"CalledProcessError", "TimeoutExpired"}
\* the snapshot checkout runs
RestoreStep == ~restore.attempted /\ restore'.attempted
\* paths are removed from tracking
RmStep == restore.rm # "ok" /\ restore'.rm = "ok"

\* C19 (state part): while the caller's block has control the reference
\* checkout has completed and the snapshot checkout has not run.
C19_Yielded ==
    c_pc = "yielded" =>
        /\ \A x \in InTree(base_tree) : worktree[x] = base_tree[x]
        /\ ~restore.attempted

\* C19 (step part): the index and the working tree change only once the
\* snapshot is recorded; the reference checkout runs only when no added path
\* is left in the working tree; the snapshot checkout runs only when the try
\* block is over; paths are removed from tracking only after the snapshot
\* checkout, and only paths of the removed list that were still there.
C19_Steps ==
    [][/\ (index' # index \/ worktree' # worktree) => current_tree # NoTree
       /\ BaseCheckoutStep =>
             \A x \in ListPaths(self_status.added) : worktree[x] = Absent
       /\ RestoreStep => (c_pc = "finally" /\ current_tree # NoTree)
       /\ RmStep =>
             /\ restore.attempted
             /\ \A x \in GPaths :
                   index'[x] # index[x] =>
                       x \in ListPaths(self_status.removed) /\ worktree[x] # Absent
      ]_vars

\* C19: the ordering of the scoped swap.
C19_Ordering == []C19_Yielded /\ C19_Steps

\* baseline_context has returned after unlinking an added path, checking out
\* the reference, yielding, restoring the snapshot and removing a removed path
\* from tracking
C19_Witness ==
    /\ c_pc = "returned"
    /\ self_status.added # <<>>
    /\ next_added > Len(self_status.added)
    /\ restore.attempted
    /\ restore.returncode = 0
    /\ restore.rm = "ok"

\* text with the spans of the matches of fs replaced, the last one first, so
\* that every span is replaced at its original columns
RECURSIVE SpliceAll(_, _)
SpliceAll(text, fs) ==
    IF fs = <<>> THEN text
    ELSE SpliceAll(Splice(text, fs[Len(fs)].m), SubSeq(fs, 1, Len(fs) - 1))

\* the fixes written to p so far are three or more single-line literal fixes
\* that all start on the same line
SameLineFixes(p) ==
    LET fs == FixedOn(p)
    IN  /\ ~dryrun
        /\ Len(fs) >= 3
        /\ \A i \in 1..Len(fs) :
              /\ IsLiteral(fs[i].m) /\ IsSingleLine(fs[i].m)
              /\ ~HasBoundary(fs[i].m.fix.text)
              /\ fs[i].m.start.line = fs[1].m.start.line

\* C20: three or more single-line literal fixes that start on the same line,
\* applied left to right in one pass, leave the file as replacing their spans
\* in the original line at their original columns does.
C20_SameLineColumnDrift ==
    \A p \in Paths :
        SameLineFixes(p) => files[p] = SpliceAll(files0[p], FixedOn(p))

\* a single-line literal fix is written for a match that starts on another
\* line than the one the offsets of its file were last used on
NewLineStep ==
    /\ ~dryrun
    /\ Len(written') = Len(written) + 1
    /\ modified_files_offsets[Iterated.m.path].present
    /\ modified_files_offsets[Iterated.m.path].active_line # Iterated.m.start.line
    /\ IsLiteral(Iterated.m) /\ IsSingleLine(Iterated.m)

\* the second half of C20: col_offset is zero again for such a match, so that
\* its span is replaced at its original columns
C20_ResetOnNewLine ==
    [][NewLineStep =>
          files'[Iterated.m.path] = Splice(files[Iterated.m.path], Iterated.m)]_vars

\* a non-dry-run step that writes a literal fix to path p, the first fix of
\* the pass on p: the offsets are zero
FirstLiteralStep(p) ==
    /\ ~dryrun
    /\ Len(applied') = Len(applied) + 1
    /\ Iterated.m.path = p
    /\ Iterated.outcome = "fixed"
    /\ IsLiteral(Iterated.m)
    /\ FixedOn(p) = <<>>

\* C21: a literal fix applied at zero offsets leaves the original content
\* with exactly the characters from (start line, start column) up to but
\* excluding (end line, end column) replaced by the replacement text, whatever
\* the replacement text; everything else, line terminators included, is kept.
C21_LiteralFixSplice ==
    [][\A p \in Paths :
          FirstLiteralStep(p) => files'[p] = Splice(files[p], Iterated.m)]_vars

\* the match carries a fix whose replacement text is the empty string
HasEmptyReplacement(m) ==
    \/ m.fix.present /\ m.fix.text = <<>>
    \/ /\ ~m.fix.present
       /\ m.fix_regex.present
       /\ m.fix_regex.has_regex /\ m.fix_regex.regex # <<>>
       /\ m.fix_regex.has_replacement /\ m.fix_regex.replacement = <<>>
       /\ m.fix_regex.count.kind # "bad"

\* the body of the loop runs, in a pass that is no dry run, on a match whose
\* fix has an empty replacement
EmptyFixStep ==
    /\ ~dryrun
    /\ queue # <<>>
    /\ queue' = Tail(queue)
    /\ HasEmptyReplacement(Head(queue))

\* C22: a match whose fix has the empty string as replacement text is applied
\* like any other fix: no error is raised, the file is written and is among
\* the modified files, and a literal fix leaves it without the matched
\* character.
C22_EmptyReplacementIsAFix ==
    [][EmptyFixStep =>
          LET p == Head(queue).path
          IN  /\ fx_pc' = "loop"
              /\ fx_err' = NoError
              /\ written' = Append(written, p)
              /\ p \in modified_files'
              /\ Head(queue).fix.present =>
                    Len(files'[p]) = Len(files[p]) - 1]_vars

====
